---- MODULE Spec2Model ----
(***************************************************************************)
(* A model of src/model.py: the configuration-driven pipeline builder, the *)
(* estimator registry, and the custom transformers / estimators            *)
(* (AgeExtractor, CategoricalEncoder, AveragePricePerNeighborhoodRegressor *)
(* and AveragePricePerNeighborhoodExtractor).                              *)
(*                                                                         *)
(* The four components share no state, so each is explored under its own   *)
(* specification (SpecBuild, SpecAge, SpecAvg, SpecEnc); Spec is their     *)
(* composition.                                                            *)
(*                                                                         *)
(* Python values are modelled as follows.                                  *)
(*   - the outcome of a call is a record [status, err, value]: status is   *)
(*     "none" (no call yet), "return" or "raise"; err is the Python        *)
(*     exception class raised;                                             *)
(*   - a data frame is its ordered column names and one sequence of cell   *)
(*     values per column.  "The same object" and "a copy" are different    *)
(*     things: AgeExtractor works on a heap of frame objects (frames), and *)
(*     a call of the Average-Price components records the caller's frame   *)
(*     before and after the call and whether the object returned is the    *)
(*     one passed in;                                                      *)
(*   - keyword arguments (params) are functions from keyword names to      *)
(*     values.                                                             *)
(***************************************************************************)
EXTENDS Integers, Sequences, FiniteSets, TLC

VARIABLES
    buildCall,   \* the last call of build_estimator: its config and outcome
    frames,      \* AgeExtractor: the heap of data frames, frame id -> frame
    ageAttrs,    \* AgeExtractor: the attributes set on the instance
    ageCall,     \* AgeExtractor: the last fit/transform call and its outcome
    stats,       \* Average-Price instances: the fitted attributes of each
    avgCall,     \* Average-Price: the last call, its arguments and outcome
    lastFit,     \* Average-Price: per instance, the arguments of its last fit
    enc,         \* CategoricalEncoder instances: attributes of each
    encCall      \* CategoricalEncoder: the last call and its outcome

vars == <<buildCall, frames, ageAttrs, ageCall, stats, avgCall, lastFit, enc, encCall>>

buildVars == <<buildCall>>
ageVars == <<frames, ageAttrs, ageCall>>
avgVars == <<stats, avgCall, lastFit>>
encVars == <<enc, encCall>>

(***************************************************************************)
(* Generic helpers.                                                        *)
(***************************************************************************)
Raise(e) == [status |-> "raise", err |-> e, value |-> <<>>]

Return(v) == [status |-> "return", err |-> "", value |-> v]

NoCall == [status |-> "none", err |-> "", value |-> <<>>]

\* The sequences over S of length 0..n.
SeqUpTo(S, n) == UNION {[1..k -> S] : k \in 0..n}

(***************************************************************************)
(* Pipeline builder and estimator registry (src/model.py:23-78).           *)
(***************************************************************************)

\* The longest configuration list explored.
MaxConfigLen == 3

\* get_estimator_mapping: registry key -> the callable it maps to.
get_estimator_mapping ==
    [n \in {"random-forest-regressor", "linear-regressor",
            "average-price-per-neighborhood-regressor", "age-extractor",
            "categorical-encoder", "standard-scaler", "discretizer",
            "crosser", "averager"} |->
        CASE n = "random-forest-regressor" -> "RandomForestRegressor"
          [] n = "linear-regressor" -> "LinearRegression"
          [] n = "average-price-per-neighborhood-regressor" ->
                 "AveragePricePerNeighborhoodRegressor"
          [] n = "age-extractor" -> "AgeExtractor"
          [] n = "categorical-encoder" -> "CategoricalEncoder"
          [] n = "standard-scaler" -> "StandardScaler"
          [] n = "discretizer" -> "_get_discretizer"
          [] n = "crosser" -> "_get_crosser"
          [] n = "averager" -> "AveragePricePerNeighborhoodExtractor"]

\* The keyword-only parameters each callable of the registry declares, among
\* the keywords the explored configurations use: required ones and optional
\* ones.  The classes without __init__ and the library estimators accept none
\* of these keywords.
RequiredKw(callable) ==
    CASE callable = "_get_discretizer" -> {"bins_per_column"}
      [] callable = "_get_crosser" -> {"columns"}
      [] OTHER -> {}

OptionalKw(callable) ==
    CASE callable = "_get_discretizer" -> {"encode", "stratey"}
      [] callable = "CategoricalEncoder" ->
             {"one_hot", "force_dense_array", "pass_through_columns"}
      [] OTHER -> {}

\* Default of a keyword left out of params.
KwDefault(kw) ==
    CASE kw = "encode" -> "onehot"
      [] kw = "stratey" -> "quantile"
      [] OTHER -> "default"

Arg(params, kw) == IF kw \in DOMAIN params THEN params[kw] ELSE KwDefault(kw)

\* _get_discretizer(**params): zip(*bins_per_column.items()) unpacks into
\* exactly two tuples, which fails on an empty mapping.
_get_discretizer(params) ==
    LET bins == params["bins_per_column"] IN
    IF DOMAIN bins = {}
    THEN Raise("ValueError")
    ELSE Return([cls |-> "ColumnTransformer",
                 transformers |-> <<[name |-> "discretizer",
                                     cls |-> "KBinsDiscretizer",
                                     n_bins |-> bins,
                                     encode |-> Arg(params, "encode"),
                                     strategy |-> Arg(params, "stratey"),
                                     columns |-> DOMAIN bins]>>,
                 remainder |-> "drop"])

\* _get_crosser(**params): the (name, transformer, columns) tuple is handed to
\* ColumnTransformer as it is, not wrapped in a list; the constructor stores
\* its argument.
_get_crosser(params) ==
    Return([cls |-> "ColumnTransformer",
            transformers |-> [name |-> "crosser",
                              cls |-> "PolynomialFeatures",
                              interaction_only |-> TRUE,
                              columns |-> params["columns"]],
            remainder |-> "passthrough"])

\* estimator_mapping[name](**params): a call with keyword arguments fails with
\* TypeError on an unexpected or a missing keyword; otherwise the callable
\* runs.
Construct(callable, params) ==
    IF ~(RequiredKw(callable) \subseteq DOMAIN params)
       \/ ~(DOMAIN params \subseteq RequiredKw(callable) \cup OptionalKw(callable))
    THEN Raise("TypeError")
    ELSE CASE callable = "_get_discretizer" -> _get_discretizer(params)
           [] callable = "_get_crosser" -> _get_crosser(params)
           [] OTHER -> Return([cls |-> callable, params |-> params])

\* Pipeline(steps): the pipeline object holding the list of (name, estimator).
Pipeline(steps) == [cls |-> "Pipeline", steps |-> steps]

\* Mutant of the loop: the new stage is put in front of the list.
RECURSIVE BuildStepsPrepend(_, _, _)
BuildStepsPrepend(config, i, steps) ==
    IF i > Len(config)
    THEN Return(steps)
    ELSE LET name == config[i].name
             params == config[i].params
         IN  IF name \notin DOMAIN get_estimator_mapping
             THEN Raise("KeyError")
             ELSE LET r == Construct(get_estimator_mapping[name], params) IN
                  IF r.status = "raise"
                  THEN r
                  ELSE BuildStepsPrepend(config, i + 1,
                           <<[name |-> name, estimator |-> r.value]>> \o steps)

\* Mutant of the loop: an entry whose name is no registry key is skipped.
RECURSIVE BuildStepsSkipUnknown(_, _, _)
BuildStepsSkipUnknown(config, i, steps) ==
    IF i > Len(config)
    THEN Return(steps)
    ELSE LET name == config[i].name
             params == config[i].params
         IN  IF name \notin DOMAIN get_estimator_mapping
             THEN BuildStepsSkipUnknown(config, i + 1, steps)
             ELSE LET r == Construct(get_estimator_mapping[name], params) IN
                  IF r.status = "raise"
                  THEN r
                  ELSE BuildStepsSkipUnknown(config, i + 1,
                           Append(steps, [name |-> name, estimator |-> r.value]))

\* The loop of build_estimator over config[i..], steps being the list so far.
RECURSIVE BuildSteps(_, _, _)
BuildSteps(config, i, steps) ==
    IF i > Len(config)
    THEN Return(steps)
    ELSE LET name == config[i].name
             params == config[i].params
         IN  IF name \notin DOMAIN get_estimator_mapping
             THEN Raise("KeyError")
             ELSE LET r == Construct(get_estimator_mapping[name], params) IN
                  IF r.status = "raise"
                  THEN r
                  ELSE BuildSteps(config, i + 1,
                                  Append(steps, [name |-> name, estimator |-> r.value]))

build_estimator(config) ==
    LET r == BuildSteps(config, 1, <<>>) IN
    IF r.status = "raise" THEN r ELSE Return(Pipeline(r.value))

\* The params the explored configurations use.
EmptyParams == [kw \in {} |-> 0]

Kw1(kw, v) == [k \in {kw} |-> v]

\* The configuration entries explored: every registry key with empty params,
\* the two factories with their required keyword (and the discretizer with an
\* empty bins mapping), an optional keyword, an unexpected keyword, and a
\* name that is no registry key.
ConfigEntries ==
    {[name |-> n, params |-> EmptyParams] : n \in DOMAIN get_estimator_mapping}
    \cup {[name |-> "discretizer",
           params |-> Kw1("bins_per_column", [c \in {"LotArea"} |-> 5])],
          [name |-> "discretizer",
           params |-> Kw1("bins_per_column", [c \in {} |-> 5])],
          [name |-> "crosser", params |-> Kw1("columns", <<0, 1>>)],
          [name |-> "categorical-encoder", params |-> Kw1("one_hot", TRUE)],
          [name |-> "linear-regressor", params |-> Kw1("columns", <<0, 1>>)],
          [name |-> "gradient-boosting", params |-> EmptyParams]}

InitBuild == buildCall = [config |-> <<>>, outcome |-> NoCall]

\* A caller calls build_estimator(config) once.
Build ==
    /\ buildCall.outcome.status = "none"
    /\ \E config \in SeqUpTo(ConfigEntries, MaxConfigLen) :
          buildCall' = [config |-> config, outcome |-> build_estimator(config)]
    /\ UNCHANGED <<ageVars, avgVars, encVars>>

NextBuild == Build

(***************************************************************************)
(* Data frames.  A frame holds its column names in order and, per column,  *)
(* the cells of its rows.                                                  *)
(***************************************************************************)
EmptyFrame == [columns |-> <<>>, cells |-> <<>>]

Columns(fr) == DOMAIN fr.cells

NumRows(fr) == IF fr.columns = <<>> THEN 0 ELSE Len(fr.cells[fr.columns[1]])

\* X[name] = values: the column is overwritten where X has it and appended as
\* the last column where it has not.
SetColumn(fr, name, values) ==
    [columns |-> IF name \in Columns(fr) THEN fr.columns ELSE Append(fr.columns, name),
     cells |-> [c \in Columns(fr) \cup {name} |->
                  IF c = name THEN values ELSE fr.cells[c]]]

\* The frame of the given columns whose rows are the given row records.
FrameOf(columns, rows) ==
    [columns |-> columns,
     cells |-> [c \in {columns[i] : i \in 1..Len(columns)} |->
                  [r \in 1..Len(rows) |-> rows[r][c]]]]

(***************************************************************************)
(* AgeExtractor (src/model.py:81-90).                                      *)
(***************************************************************************)

\* The most rows of a frame a caller makes, and the most frame objects.
MaxAgeRows == 2

MaxAgeFrames == 3

\* a - b on two columns, row by row.
Minus(a, b) == [r \in DOMAIN a |-> a[r] - b[r]]

\* X[target] = X[left] - X[right]; reading a column X has not raises KeyError.
Derive(r, target, left, right) ==
    IF r.status = "raise"
    THEN r
    ELSE IF ~({left, right} \subseteq Columns(r.value))
         THEN Raise("KeyError")
         ELSE Return(SetColumn(r.value, target,
                               Minus(r.value.cells[left], r.value.cells[right])))

\* The three assignments of transform, applied to the frame contents x.
AgeColumns(x) ==
    Derive(Derive(Derive(Return(x), "HouseAge", "YrSold", "YearBuilt"),
                  "RemodAddAge", "YrSold", "YearRemodAdd"),
           "GarageAge", "YrSold", "GarageYrBlt")

\* Mutant of transform: no copy is taken, the caller's frame is assigned to.
AgeExtractor_transform_NoCopy(heap, f) ==
    LET r == AgeColumns(heap[f]) IN
    IF r.status = "raise"
    THEN [heap |-> heap, outcome |-> r]
    ELSE [heap |-> [heap EXCEPT ![f] = r.value], outcome |-> Return(f)]

\* AgeExtractor.transform(X), X being the frame object f of the heap: X.copy()
\* is a new object, the three columns are assigned on it, and it is returned.
\* When an assignment raises, the copy is dropped with the call.
AgeExtractor_transform(heap, f) ==
    LET r == AgeColumns(heap[f]) IN
    IF r.status = "raise"
    THEN [heap |-> heap, outcome |-> r]
    ELSE [heap |-> Append(heap, r.value), outcome |-> Return(Len(heap) + 1)]

\* AgeExtractor.fit(X, y=None): returns self, sets nothing.
AgeExtractor_fit(self, attrs) == [attrs |-> attrs, outcome |-> Return(self)]

\* The rows and the column lists the caller's frames are made of.
AgeRows ==
    {[YrSold |-> 2010, YearBuilt |-> 2000, YearRemodAdd |-> 2005,
      GarageYrBlt |-> 2008, LotArea |-> 7, HouseAge |-> 99],
     [YrSold |-> 2008, YearBuilt |-> 2008, YearRemodAdd |-> 2006,
      GarageYrBlt |-> 2009, LotArea |-> 8, HouseAge |-> 0]}

AgeColumnLists ==
    {<<"YrSold", "YearBuilt", "YearRemodAdd", "GarageYrBlt">>,
     <<"LotArea", "YearBuilt", "GarageYrBlt", "YearRemodAdd", "YrSold">>,
     <<"YrSold", "HouseAge", "YearBuilt", "YearRemodAdd", "GarageYrBlt">>,
     <<"YrSold", "YearBuilt", "YearRemodAdd">>}

AgeSelf == "self"

NoAgeCall ==
    [op |-> "none", arg |-> 0, before |-> EmptyFrame, attrsBefore |-> {},
     heapBefore |-> <<>>, outcome |-> NoCall]

InitAge == frames = <<>> /\ ageAttrs = {} /\ ageCall = NoAgeCall

\* The caller makes its frame.
AgeNewFrame ==
    /\ frames = <<>>
    /\ \E columns \in AgeColumnLists, rows \in SeqUpTo(AgeRows, MaxAgeRows) :
          frames' = <<FrameOf(columns, rows)>>
    /\ UNCHANGED <<ageAttrs, ageCall, buildVars, avgVars, encVars>>

\* transform is called on a frame: the caller's, or one a transform returned.
AgeTransform ==
    /\ Len(frames) < MaxAgeFrames
    /\ \E f \in 1..Len(frames) :
          LET r == AgeExtractor_transform(frames, f) IN
          /\ frames' = r.heap
          /\ ageCall' = [op |-> "transform", arg |-> f, before |-> frames[f],
                         attrsBefore |-> ageAttrs, heapBefore |-> frames,
                         outcome |-> r.outcome]
    /\ UNCHANGED <<ageAttrs, buildVars, avgVars, encVars>>

\* fit is called on a frame.
AgeFit ==
    /\ \E f \in 1..Len(frames) :
          LET r == AgeExtractor_fit(AgeSelf, ageAttrs) IN
          /\ ageAttrs' = r.attrs
          /\ ageCall' = [op |-> "fit", arg |-> f, before |-> frames[f],
                         attrsBefore |-> ageAttrs, heapBefore |-> frames,
                         outcome |-> r.outcome]
    /\ UNCHANGED <<frames, buildVars, avgVars, encVars>>

NextAge == AgeNewFrame \/ AgeTransform \/ AgeFit

(***************************************************************************)
(* AveragePricePerNeighborhoodRegressor and                                *)
(* AveragePricePerNeighborhoodExtractor (src/model.py:141-177).            *)
(*                                                                         *)
(* A mean is kept as the exact fraction num/den in lowest terms (floating  *)
(* point rounding is not modelled); the mean of no value is NaN.           *)
(***************************************************************************)

\* The most rows of a training set.
MaxTrainRows == 2

RECURSIVE GCD(_, _)
GCD(a, b) == IF b = 0 THEN a ELSE GCD(b, a % b)

RECURSIVE Sum(_)
Sum(values) == IF values = <<>> THEN 0 ELSE Head(values) + Sum(Tail(values))

NaN == [num |-> 0, den |-> 0]

\* Series.mean(): the sum over the count.
Mean(values) ==
    IF values = <<>>
    THEN NaN
    ELSE LET g == GCD(Sum(values), Len(values)) IN
         [num |-> Sum(values) \div g, den |-> Len(values) \div g]

\* The training rows pair X["Neighborhood"] with y, row by row.
Neighborhoods(rows) == {rows[k].Neighborhood : k \in 1..Len(rows)}

Prices(rows) == [k \in 1..Len(rows) |-> rows[k].price]

PricesIn(rows, n) == Prices(SelectSeq(rows, LAMBDA r : r.Neighborhood = n))

\* df.groupby("Neighborhood").mean().to_dict()["price"]
GroupMeans(rows) == [n \in Neighborhoods(rows) |-> Mean(PricesIn(rows, n))]

\* The attributes of an instance on which fit was never called.
Unfit == [fitted |-> FALSE, means_ |-> <<>>, global_mean_ |-> NaN]

\* Mutant of fit: the groups of the new fit are added to those of the old.
Extractor_fit_Merge(self, rows) ==
    [attrs |-> [fitted |-> TRUE,
                means_ |-> [n \in DOMAIN self.means_ \cup Neighborhoods(rows) |->
                              IF n \in Neighborhoods(rows)
                              THEN GroupMeans(rows)[n]
                              ELSE self.means_[n]],
                global_mean_ |-> Mean(Prices(rows))],
     returnsSelf |-> TRUE]

\* AveragePricePerNeighborhoodRegressor.fit(X, y) on an instance whose
\* attributes are self: both attributes are assigned anew.
Regressor_fit(self, rows) ==
    [attrs |-> [fitted |-> TRUE,
                means_ |-> GroupMeans(rows),
                global_mean_ |-> Mean(Prices(rows))],
     returnsSelf |-> TRUE]

\* AveragePricePerNeighborhoodExtractor.fit(X, y).
Extractor_fit(self, rows) ==
    [attrs |-> [fitted |-> TRUE,
                means_ |-> GroupMeans(rows),
                global_mean_ |-> Mean(Prices(rows))],
     returnsSelf |-> TRUE]

\* get_average(x), the closure of predict and of transform.
get_average(self, x) ==
    IF x \in DOMAIN self.means_ THEN self.means_[x] ELSE self.global_mean_

\* X["Neighborhood"].apply(get_average): get_average runs once per row, and
\* its reading self.means_ raises AttributeError where fit never set it;
\* reading a column X has not raises KeyError.
ApplyGetAverage(self, x) ==
    IF "Neighborhood" \notin Columns(x)
    THEN Raise("KeyError")
    ELSE IF x.cells["Neighborhood"] = <<>>
         THEN Return(<<>>)
         ELSE IF ~self.fitted
              THEN Raise("AttributeError")
              ELSE Return([r \in DOMAIN x.cells["Neighborhood"] |->
                             get_average(self, x.cells["Neighborhood"][r])])

\* Mutant of predict: a neighborhood not seen by fit is answered with 0.
Regressor_predict_ZeroFallback(self, x) ==
    LET r == ApplyGetAverage(self, x) IN
    [attrs |-> self,
     outcome |-> IF r.status = "raise"
                 THEN r
                 ELSE Return([k \in DOMAIN r.value |->
                                IF x.cells["Neighborhood"][k] \in DOMAIN self.means_
                                THEN r.value[k]
                                ELSE [num |-> 0, den |-> 1]])]

\* AveragePricePerNeighborhoodRegressor.predict(X): the series of the answers.
Regressor_predict(self, x) ==
    [attrs |-> self, outcome |-> ApplyGetAverage(self, x)]

\* Mutant of transform: the answer given for a neighborhood not seen by fit
\* is remembered in means_.
Extractor_transform_Caching(self, x) ==
    LET r == ApplyGetAverage(self, x) IN
    IF r.status = "raise"
    THEN [attrs |-> self, x |-> x, same |-> FALSE, outcome |-> r]
    ELSE LET after == SetColumn(x, "AveragePriceInNeihborhood", r.value)
             asked == {x.cells["Neighborhood"][k] : k \in 1..NumRows(x)}
         IN  [attrs |-> [self EXCEPT !.means_ =
                            [n \in DOMAIN self.means_ \cup asked |-> get_average(self, n)]],
              x |-> after, same |-> TRUE, outcome |-> Return(after)]

\* AveragePricePerNeighborhoodExtractor.transform(X): the column is assigned
\* on X itself, the caller's object, and X is returned.  x is the frame after
\* the call, same tells that the object returned is the one passed in.
Extractor_transform(self, x) ==
    LET r == ApplyGetAverage(self, x) IN
    IF r.status = "raise"
    THEN [attrs |-> self, x |-> x, same |-> FALSE, outcome |-> r]
    ELSE LET after == SetColumn(x, "AveragePriceInNeihborhood", r.value) IN
         [attrs |-> self, x |-> after, same |-> TRUE, outcome |-> Return(after)]

\* The instances: one of each class.
AvgInstances == {"regressor", "extractor"}

\* The training rows and training sets explored: every list of up to
\* MaxTrainRows rows, and the documented example.
TrainRows ==
    {[Neighborhood |-> "A", price |-> 100], [Neighborhood |-> "A", price |-> 200],
     [Neighborhood |-> "B", price |-> 300]}

ExampleTrain ==
    <<[Neighborhood |-> "A", price |-> 100], [Neighborhood |-> "A", price |-> 200],
      [Neighborhood |-> "B", price |-> 300]>>

TrainSets == SeqUpTo(TrainRows, MaxTrainRows) \cup {ExampleTrain}

\* The query frames explored: the documented example, a frame of no row, a
\* frame with another column, and a frame without the Neighborhood column.
QueryFrames ==
    {FrameOf(<<"Neighborhood">>,
             <<[Neighborhood |-> "A"], [Neighborhood |-> "B"], [Neighborhood |-> "C"]>>),
     FrameOf(<<"Neighborhood">>, <<>>),
     FrameOf(<<"LotArea", "Neighborhood">>,
             <<[Neighborhood |-> "C", LotArea |-> 7], [Neighborhood |-> "A", LotArea |-> 8]>>),
     FrameOf(<<"LotArea">>, <<[LotArea |-> 7]>>)}

NoAvgCall ==
    [op |-> "none", self |-> "regressor", train |-> <<>>, beforeKeys |-> {},
     refit |-> FALSE, x |-> EmptyFrame, xAfter |-> EmptyFrame, same |-> FALSE,
     outcome |-> NoCall]

InitAvg ==
    /\ stats = [i \in AvgInstances |-> Unfit]
    /\ lastFit = [i \in AvgInstances |-> [fitted |-> FALSE, train |-> <<>>]]
    /\ avgCall = NoAvgCall

FitOf(i, self, rows) ==
    IF i = "regressor" THEN Regressor_fit(self, rows) ELSE Extractor_fit(self, rows)

\* fit is called on an instance with a training set.
AvgFit ==
    /\ \E i \in AvgInstances, rows \in TrainSets :
          LET r == FitOf(i, stats[i], rows) IN
          /\ stats' = [stats EXCEPT ![i] = r.attrs]
          /\ lastFit' = [lastFit EXCEPT ![i] = [fitted |-> TRUE, train |-> rows]]
          /\ avgCall' = [NoAvgCall EXCEPT !.op = "fit", !.self = i, !.train = rows,
                                          !.beforeKeys = DOMAIN stats[i].means_,
                                          !.refit = stats[i].fitted,
                                          !.outcome = Return(i)]
    /\ UNCHANGED <<buildVars, ageVars, encVars>>

\* predict is called on the regressor with a query frame.
AvgPredict ==
    /\ \E x \in QueryFrames :
          LET r == Regressor_predict(stats["regressor"], x) IN
          /\ stats' = [stats EXCEPT !["regressor"] = r.attrs]
          /\ avgCall' = [NoAvgCall EXCEPT !.op = "predict", !.self = "regressor",
                                          !.x = x, !.xAfter = x,
                                          !.outcome = r.outcome]
    /\ UNCHANGED <<lastFit, buildVars, ageVars, encVars>>

\* transform is called on the extractor with a query frame.
AvgTransform ==
    /\ \E x \in QueryFrames :
          LET r == Extractor_transform(stats["extractor"], x) IN
          /\ stats' = [stats EXCEPT !["extractor"] = r.attrs]
          /\ avgCall' = [NoAvgCall EXCEPT !.op = "transform", !.self = "extractor",
                                          !.x = x, !.xAfter = r.x, !.same = r.same,
                                          !.outcome = r.outcome]
    /\ UNCHANGED <<lastFit, buildVars, ageVars, encVars>>

NextAvg == AvgFit \/ AvgPredict \/ AvgTransform

(***************************************************************************)
(* CategoricalEncoder (src/model.py:93-138) and the column metadata of     *)
(* the dataset it reads (module data).                                     *)
(*                                                                         *)
(* The output of transform is a matrix; it is modelled as the labels of    *)
(* its columns, <<source column, category>>, and its rows.                 *)
(***************************************************************************)

\* The most rows of a frame handed to the encoder.
MaxEncRows == 2

\* The column metadata provider: column-name lists and, per categorical or
\* binary column, the ordered list of its category values.
get_numeric_column_names == <<"LotArea">>

get_binary_column_names == <<"CentralAir">>

get_categorical_column_names == <<"MSZoning">>

get_categorical_variables_values_mapping ==
    [c \in {"CentralAir", "MSZoning"} |->
        IF c = "CentralAir" THEN <<"N", "Y">> ELSE <<"FV", "RL", "RM">>]

Range(seq) == {seq[k] : k \in 1..Len(seq)}

IndexOf(seq, v) == CHOOSE k \in 1..Len(seq) : seq[k] = v

RECURSIVE Flatten(_)
Flatten(seqs) == IF seqs = <<>> THEN <<>> ELSE Head(seqs) \o Flatten(Tail(seqs))

\* CategoricalEncoder(**params): the attributes __init__ sets.
CategoricalEncoder_init(params) ==
    LET names == get_binary_column_names \o get_categorical_column_names IN
    [created |-> TRUE,
     one_hot |-> IF "one_hot" \in DOMAIN params THEN params["one_hot"] ELSE FALSE,
     force_dense_array |-> IF "force_dense_array" \in DOMAIN params
                           THEN params["force_dense_array"] ELSE FALSE,
     pass_through_given |-> "pass_through_columns" \in DOMAIN params,
     pass_through_columns |-> IF "pass_through_columns" \in DOMAIN params
                              THEN params["pass_through_columns"] ELSE <<>>,
     categorical_column_names |-> names,
     categories |-> [k \in 1..Len(names) |->
                       get_categorical_variables_values_mapping[names[k]]],
     n_features_in_ |-> 0,
     ct |-> [state |-> "absent", one_hot |-> FALSE, sparse |-> FALSE,
             categories_ |-> <<>>, columns |-> <<>>, pass_through |-> <<>>]]

\* The encoder of a ColumnTransformer rejects a value that is not among the
\* categories it was given for the column.
UnknownValue(categories, columns, x) ==
    \E k \in 1..Len(columns) :
       \E r \in 1..NumRows(x) : x.cells[columns[k]][r] \notin Range(categories[k])

\* The sorted distinct values of a column (the categories an encoder infers
\* from the batch when it is given none); the categories are listed here in
\* the order of the vocabulary.
SeenValues(vocabulary, column) ==
    SelectSeq(vocabulary, LAMBDA v : v \in Range(column))

\* Mutant of fit: the encoder is not given the vocabulary and infers the
\* categories of each column from the frame it is fitted on.
CategoricalEncoder_fit_Inferred(self, x) ==
    LET pass == IF self.pass_through_given
                THEN get_numeric_column_names \o self.pass_through_columns
                ELSE get_numeric_column_names
        unfitted == [state |-> "unfitted", one_hot |-> self.one_hot,
                     sparse |-> self.one_hot /\ ~self.force_dense_array,
                     categories_ |-> [k \in 1..Len(self.categories) |->
                         SeenValues(self.categories[k],
                                    x.cells[self.categorical_column_names[k]])],
                     columns |-> self.categorical_column_names,
                     pass_through |-> pass]
    IN  [attrs |-> [self EXCEPT !.n_features_in_ = Len(x.columns),
                                !.ct = [unfitted EXCEPT !.state = "fitted"]],
         outcome |-> Return("self")]

\* CategoricalEncoder.fit(X, y=None): n_features_in_ is recorded, a new
\* ColumnTransformer is stored in _column_transformer and then fitted on X.
\* Its fit raises ValueError on a column X has not and on a category value
\* outside the categories given; the transformer stored stays unfitted then.
CategoricalEncoder_fit(self, x) ==
    LET pass == IF self.pass_through_given
                THEN get_numeric_column_names \o self.pass_through_columns
                ELSE get_numeric_column_names
        unfitted == [state |-> "unfitted", one_hot |-> self.one_hot,
                     sparse |-> self.one_hot /\ ~self.force_dense_array,
                     categories_ |-> self.categories,
                     columns |-> self.categorical_column_names,
                     pass_through |-> pass]
    IN  IF \/ ~(Range(unfitted.columns) \cup Range(pass) \subseteq Columns(x))
           \/ UnknownValue(unfitted.categories_, unfitted.columns, x)
        THEN [attrs |-> [self EXCEPT !.n_features_in_ = Len(x.columns), !.ct = unfitted],
              outcome |-> Raise("ValueError")]
        ELSE [attrs |-> [self EXCEPT !.n_features_in_ = Len(x.columns),
                                     !.ct = [unfitted EXCEPT !.state = "fitted"]],
              outcome |-> Return("self")]

\* OneHotEncoder(drop="first") on one column: a 0/1 column per category but
\* the first.  OrdinalEncoder: one column holding the position of the value.
EncoderLabels(ct, k) ==
    IF ct.one_hot
    THEN [j \in 1..(Len(ct.categories_[k]) - 1) |->
            <<ct.columns[k], ct.categories_[k][j + 1]>>]
    ELSE <<(<<ct.columns[k], "code">>)>>

EncoderCells(ct, k, v) ==
    IF ct.one_hot
    THEN [j \in 1..(Len(ct.categories_[k]) - 1) |->
            IF ct.categories_[k][j + 1] = v THEN 1 ELSE 0]
    ELSE <<IndexOf(ct.categories_[k], v) - 1>>

\* CategoricalEncoder.transform(X): the fitted ColumnTransformer puts the
\* encoded categorical columns first and the pass-through columns after, and
\* drops every other column.
CategoricalEncoder_transform(self, x) ==
    LET ct == self.ct IN
    IF ct.state = "absent" THEN Raise("AttributeError")
    ELSE IF ct.state = "unfitted" THEN Raise("NotFittedError")
    ELSE IF \/ ~(Range(ct.columns) \cup Range(ct.pass_through) \subseteq Columns(x))
            \/ UnknownValue(ct.categories_, ct.columns, x)
         THEN Raise("ValueError")
         ELSE Return(
            [labels |-> Flatten([k \in 1..Len(ct.columns) |-> EncoderLabels(ct, k)])
                        \o [k \in 1..Len(ct.pass_through) |-> <<ct.pass_through[k], "">>],
             rows |-> [r \in 1..NumRows(x) |->
                         Flatten([k \in 1..Len(ct.columns) |->
                                    EncoderCells(ct, k, x.cells[ct.columns[k]][r])])
                         \o [k \in 1..Len(ct.pass_through) |->
                               x.cells[ct.pass_through[k]][r]]]])

\* The rows and frames handed to the encoder: every category value of the
\* vocabulary occurs in some row, and one row holds a value outside it.  The
\* frames have at least one row.
EncRows ==
    {[Id |-> 1, CentralAir |-> "N", MSZoning |-> "FV", LotArea |-> 7, YrSold |-> 2008],
     [Id |-> 2, CentralAir |-> "Y", MSZoning |-> "RL", LotArea |-> 8, YrSold |-> 2010],
     [Id |-> 3, CentralAir |-> "Y", MSZoning |-> "RM", LotArea |-> 9, YrSold |-> 2010],
     [Id |-> 4, CentralAir |-> "N", MSZoning |-> "C (all)", LotArea |-> 7, YrSold |-> 2008]}

EncFrameColumns == <<"Id", "CentralAir", "MSZoning", "LotArea", "YrSold">>

EncFrames ==
    {FrameOf(EncFrameColumns, rows) : rows \in SeqUpTo(EncRows, MaxEncRows) \ {<<>>}}

\* The params the encoder is constructed with.
EncParams ==
    {EmptyParams, Kw1("one_hot", TRUE), Kw1("pass_through_columns", <<"YrSold">>),
     [kw \in {"one_hot", "force_dense_array", "pass_through_columns"} |->
        IF kw = "pass_through_columns" THEN <<"YrSold">> ELSE TRUE]}

\* Every categorical value of the frame is in the vocabulary of its column.
InVocabulary(x) ==
    \A c \in DOMAIN get_categorical_variables_values_mapping :
       \A r \in 1..NumRows(x) :
          x.cells[c][r] \in Range(get_categorical_variables_values_mapping[c])

\* fitInVocabulary: the last fit was on a frame within the vocabulary.
NoEncCall ==
    [op |-> "none", x |-> EmptyFrame, fitInVocabulary |-> FALSE, outcome |-> NoCall]

InitEnc ==
    /\ enc = [CategoricalEncoder_init(EmptyParams) EXCEPT !.created = FALSE]
    /\ encCall = NoEncCall

\* The encoder is constructed.
EncNew ==
    /\ ~enc.created
    /\ \E params \in EncParams : enc' = CategoricalEncoder_init(params)
    /\ UNCHANGED <<encCall, buildVars, ageVars, avgVars>>

\* fit is called on the encoder.
EncFit ==
    /\ enc.created
    /\ \E x \in EncFrames :
          LET r == CategoricalEncoder_fit(enc, x) IN
          /\ enc' = r.attrs
          /\ encCall' = [op |-> "fit", x |-> x, fitInVocabulary |-> InVocabulary(x),
                         outcome |-> r.outcome]
    /\ UNCHANGED <<buildVars, ageVars, avgVars>>

\* transform is called on the encoder.
EncTransform ==
    /\ enc.created
    /\ \E x \in EncFrames :
          encCall' = [op |-> "transform", x |-> x,
                      fitInVocabulary |-> encCall.fitInVocabulary,
                      outcome |-> CategoricalEncoder_transform(enc, x)]
    /\ UNCHANGED <<enc, buildVars, ageVars, avgVars>>

NextEnc == EncNew \/ EncFit \/ EncTransform

(***************************************************************************)
(* Claims about the pipeline builder.  The spec's error names are language *)
(* neutral; the Python exception they stand for is the one the code        *)
(* raises: UnknownEstimatorError is the KeyError of the registry lookup.   *)
(***************************************************************************)
UnknownEstimatorError == "KeyError"

\* The entry's name is a registry key and its params are accepted: the call
\* estimator_mapping[name](**params) returns an object.
EntryAccepted(e) ==
    /\ e.name \in DOMAIN get_estimator_mapping
    /\ Construct(get_estimator_mapping[e.name], e.params).status = "return"

HasUnknownName(config) ==
    \E i \in 1..Len(config) : config[i].name \notin DOMAIN get_estimator_mapping

\* The first entry of config that is not accepted (0 when there is none).
FirstRejected(config) ==
    IF \A i \in 1..Len(config) : EntryAccepted(config[i])
    THEN 0
    ELSE CHOOSE i \in 1..Len(config) :
            /\ ~EntryAccepted(config[i])
            /\ \A j \in 1..(i - 1) : EntryAccepted(config[j])

\* C1: for every configuration list whose entries all name a registry key
\* with params its constructor accepts, build_estimator returns a pipeline
\* with len(config) stages, the i-th stage being named config[i].name and
\* holding the object constructed from config[i].
C1_BuildKeepsOrder ==
    LET config == buildCall.config
        out == buildCall.outcome
    IN  (out.status # "none" /\ \A i \in 1..Len(config) : EntryAccepted(config[i]))
        => /\ out.status = "return"
           /\ out.value.cls = "Pipeline"
           /\ Len(out.value.steps) = Len(config)
           /\ \A i \in 1..Len(config) :
                 /\ out.value.steps[i].name = config[i].name
                 /\ out.value.steps[i].estimator =
                       Construct(get_estimator_mapping[config[i].name],
                                 config[i].params).value

\* C1 witness: a pipeline of three stages was built from a list holding both
\* factory entries.
C1_Witness ==
    /\ buildCall.outcome.status = "return"
    /\ Len(buildCall.config) = 3
    /\ buildCall.config[1].name = "discretizer"
    /\ buildCall.config[2].name = "crosser"
    /\ buildCall.config[3].name = "linear-regressor"

\* C2 as stated: a configuration list holding an entry whose name is no
\* registry key always fails with UnknownEstimatorError, whatever the other
\* entries are.
C2_UnknownNameAlwaysKeyError ==
    (buildCall.outcome.status # "none" /\ HasUnknownName(buildCall.config))
    => /\ buildCall.outcome.status = "raise"
       /\ buildCall.outcome.err = UnknownEstimatorError

\* C2 amended: a configuration list holding an entry whose name is no
\* registry key always fails and no pipeline is returned; the entries are
\* processed in order, so the error is that of the first entry that is not
\* accepted: UnknownEstimatorError when that entry is one with an unknown
\* name (at any position), and the constructor's error when an earlier entry
\* has a known name with params its constructor rejects.
C2_FirstRejectedEntryDecides ==
    LET config == buildCall.config
        out == buildCall.outcome
        k == FirstRejected(config)
    IN  (out.status # "none" /\ HasUnknownName(config))
        => /\ out.status = "raise"
           /\ k > 0
           /\ IF config[k].name \notin DOMAIN get_estimator_mapping
              THEN out.err = UnknownEstimatorError
              ELSE out.err = Construct(get_estimator_mapping[config[k].name],
                                       config[k].params).err

\* C2 witness: the unknown name is the middle entry of three, between two
\* accepted entries, and the call failed with UnknownEstimatorError.
C2_Witness ==
    /\ Len(buildCall.config) = 3
    /\ EntryAccepted(buildCall.config[1])
    /\ buildCall.config[2].name \notin DOMAIN get_estimator_mapping
    /\ EntryAccepted(buildCall.config[3])
    /\ buildCall.outcome.status = "raise"
    /\ buildCall.outcome.err = UnknownEstimatorError

(***************************************************************************)
(* Claims about AgeExtractor.                                              *)
(***************************************************************************)
AgeSources == {"YrSold", "YearBuilt", "YearRemodAdd", "GarageYrBlt"}

AgeTargets == {"HouseAge", "RemodAddAge", "GarageAge"}

\* The last call was transform on a frame holding the four year columns.
AgeTransformed ==
    /\ ageCall.op = "transform"
    /\ AgeSources \subseteq Columns(ageCall.before)

\* What holds of every transform, whatever columns X has besides the four:
\* a new frame object is returned, X is left as it was, and the returned
\* frame holds the three ages computed row by row.
AgeTransformCopies ==
    LET x == ageCall.before
        out == ageCall.outcome
    IN  /\ out.status = "return"
        /\ out.value \in (1..Len(frames)) \ (1..Len(ageCall.heapBefore))
        /\ \A g \in 1..Len(ageCall.heapBefore) : frames[g] = ageCall.heapBefore[g]
        /\ frames[ageCall.arg] = x
        /\ LET res == frames[out.value] IN
           /\ NumRows(res) = NumRows(x)
           /\ \A r \in 1..NumRows(x) :
                 /\ res.cells["HouseAge"][r] = x.cells["YrSold"][r] - x.cells["YearBuilt"][r]
                 /\ res.cells["RemodAddAge"][r] =
                       x.cells["YrSold"][r] - x.cells["YearRemodAdd"][r]
                 /\ res.cells["GarageAge"][r] =
                       x.cells["YrSold"][r] - x.cells["GarageYrBlt"][r]

\* fit sets no attribute, touches no frame and returns the instance itself.
AgeFitIsNoOp ==
    ageCall.op = "fit"
    => /\ ageCall.outcome = Return(AgeSelf)
       /\ ageAttrs = ageCall.attrsBefore
       /\ frames = ageCall.heapBefore

\* C7 as stated: for any frame X holding the four year columns, transform
\* returns a frame with every original column unchanged plus exactly three
\* added columns holding the ages; X is not mutated; fit changes no state
\* and returns the same instance.
C7_ExactlyThreeAdded ==
    /\ AgeFitIsNoOp
    /\ AgeTransformed
       => /\ AgeTransformCopies
          /\ LET x == ageCall.before
                 res == frames[ageCall.outcome.value]
             IN  /\ Columns(res) = Columns(x) \cup AgeTargets
                 /\ Cardinality(Columns(res)) = Cardinality(Columns(x)) + 3
                 /\ \A c \in Columns(x) : res.cells[c] = x.cells[c]

\* C7 amended: for any frame X holding the four year columns, transform
\* returns a new frame whose columns are those of X together with HouseAge,
\* RemodAddAge and GarageAge, holding per row YrSold - YearBuilt,
\* YrSold - YearRemodAdd and YrSold - GarageYrBlt; every column of X other
\* than these three keeps its values and its position, the three are
\* appended after the columns of X when X has none of them, and a column of
\* X that already bears one of the three names is overwritten in place
\* rather than added; X is not mutated; fit changes no state and returns
\* the same instance.
C7_AgesSetOnCopy ==
    /\ AgeFitIsNoOp
    /\ AgeTransformed
       => /\ AgeTransformCopies
          /\ LET x == ageCall.before
                 res == frames[ageCall.outcome.value]
             IN  /\ Columns(res) = Columns(x) \cup AgeTargets
                 /\ \A c \in Columns(x) \ AgeTargets : res.cells[c] = x.cells[c]
                 /\ \A i \in 1..Len(x.columns) : res.columns[i] = x.columns[i]
                 /\ Columns(x) \cap AgeTargets = {}
                    => res.columns = x.columns \o <<"HouseAge", "RemodAddAge", "GarageAge">>

\* C7 witness: a frame of two rows, one of them the row (2010, 2000, 2005,
\* 2008), with an extra column and no age column, was transformed into a
\* frame with the ages 10, 5 and 2 in that row.
C7_Witness ==
    /\ AgeTransformed
    /\ ageCall.outcome.status = "return"
    /\ Columns(ageCall.before) \cap AgeTargets = {}
    /\ "LotArea" \in Columns(ageCall.before)
    /\ NumRows(ageCall.before) = 2
    /\ \E r \in 1..2 :
          LET res == frames[ageCall.outcome.value] IN
          /\ res.cells["YrSold"][r] = 2010
          /\ res.cells["HouseAge"][r] = 10
          /\ res.cells["RemodAddAge"][r] = 5
          /\ res.cells["GarageAge"][r] = 2

(***************************************************************************)
(* Claims about the Average-Price components.  NotFittedError stands for   *)
(* the exception the code raises on an instance that was never fitted, the *)
(* AttributeError of reading self.means_.                                  *)
(***************************************************************************)
NotFittedError == "AttributeError"

RECURSIVE Total(_, _)
\* The sum of the prices of the training rows whose index is in idx.
Total(rows, idx) ==
    IF idx = {}
    THEN 0
    ELSE LET k == CHOOSE k \in idx : TRUE IN rows[k].price + Total(rows, idx \ {k})

\* m is the arithmetic mean of the prices of the training rows idx.
IsMeanOver(m, rows, idx) ==
    IF idx = {}
    THEN m = NaN
    ELSE m.den > 0 /\ m.num * Cardinality(idx) = m.den * Total(rows, idx)

\* m is the answer the claims give for neighborhood n after a fit on rows:
\* the mean over the rows of n when there is one, the mean over all rows
\* otherwise.
IsAnswerFor(m, rows, n) ==
    LET group == {k \in 1..Len(rows) : rows[k].Neighborhood = n} IN
    IsMeanOver(m, rows, IF group # {} THEN group ELSE 1..Len(rows))

Whole(v) == [num |-> v, den |-> 1]

C4_ExtractorColumnEqualsPredict ==
    (/\ avgCall.op = "transform"
     /\ lastFit["extractor"].fitted
     /\ "Neighborhood" \in Columns(avgCall.x))
    => /\ avgCall.outcome.status = "return"
       /\ "AveragePriceInNeighborhood" \in Columns(avgCall.outcome.value)
       /\ avgCall.outcome.value.cells["AveragePriceInNeighborhood"] =
             Regressor_predict(Regressor_fit(Unfit, lastFit["extractor"].train).attrs,
                               avgCall.x).outcome.value

\* C5 as stated: transform returns a copy; the frame passed in has after the
\* call exactly the columns and values it had before, and the returned frame
\* is a distinct object.
C5_TransformReturnsCopy ==
    (avgCall.op = "transform" /\ avgCall.outcome.status = "return")
    => /\ avgCall.xAfter = avgCall.x
       /\ ~avgCall.same

\* C6 as stated: predict or transform on an instance on which fit has never
\* been called fails with NotFittedError, for every input frame, including
\* an empty one.  (Stated here of the frames that hold the Neighborhood
\* column, the empty one among them.)
C6_UnfittedRaisesNotFitted ==
    (/\ avgCall.op \in {"predict", "transform"}
     /\ ~lastFit[avgCall.self].fitted
     /\ "Neighborhood" \in Columns(avgCall.x))
    => /\ avgCall.outcome.status = "raise"
       /\ avgCall.outcome.err = NotFittedError

\* C9: a predict or transform call leaves means_ and global_mean_ of every
\* instance unchanged, and a fit on one instance leaves those of every other
\* instance unchanged.
C9_StatsWrittenOnlyByOwnFit ==
    [][/\ avgCall'.op \in {"predict", "transform"} => stats' = stats
       /\ avgCall'.op = "fit" =>
             \A j \in AvgInstances \ {avgCall'.self} : stats'[j] = stats[j]]_vars

\* C9 witness: both instances are fitted, on different training sets, and
\* the extractor has answered a query holding a neighborhood it never saw.
C9_Witness ==
    /\ avgCall.op = "transform"
    /\ avgCall.outcome.status = "return"
    /\ stats["regressor"].fitted
    /\ stats["extractor"].fitted
    /\ stats["regressor"] # stats["extractor"]
    /\ \E r \in 1..NumRows(avgCall.x) :
          avgCall.x.cells["Neighborhood"][r] \notin DOMAIN stats["extractor"].means_

\* C10: after fit(X1, y1) followed by fit(X2, y2), means_ and global_mean_
\* are what a fresh instance holds after fit(X2, y2) alone: means_ has the
\* neighborhoods of X2 and no other, each with its mean over (X2, y2), and a
\* neighborhood that occurred only in X1 is answered by predict and by
\* transform with the global mean of y2.
C10_RefitReplacesState ==
    avgCall.op = "fit"
    => LET me == stats[avgCall.self]
           rows == avgCall.train
           all == 1..Len(rows)
           gone == avgCall.beforeKeys \ Neighborhoods(rows)
           ask(n) == FrameOf(<<"Neighborhood">>, <<[Neighborhood |-> n]>>)
       IN  /\ me.fitted
           /\ DOMAIN me.means_ = Neighborhoods(rows)
           /\ \A n \in Neighborhoods(rows) :
                 IsMeanOver(me.means_[n], rows,
                            {k \in all : rows[k].Neighborhood = n})
           /\ IsMeanOver(me.global_mean_, rows, all)
           /\ \A n \in gone :
                 IF avgCall.self = "regressor"
                 THEN LET out == Regressor_predict(me, ask(n)).outcome IN
                      /\ out.status = "return"
                      /\ IsMeanOver(out.value[1], rows, all)
                 ELSE LET out == Extractor_transform(me, ask(n)).outcome IN
                      /\ out.status = "return"
                      /\ IsMeanOver(out.value.cells["AveragePriceInNeihborhood"][1],
                                    rows, all)

\* C10 witness: the extractor, fitted before on a training set holding
\* neighborhood A, was fitted again on a training set of two rows without A.
C10_Witness ==
    /\ avgCall.op = "fit"
    /\ avgCall.self = "extractor"
    /\ avgCall.refit
    /\ "A" \in avgCall.beforeKeys
    /\ Len(avgCall.train) = 2
    /\ "A" \notin Neighborhoods(avgCall.train)

(***************************************************************************)
(* Claims about CategoricalEncoder.                                        *)
(***************************************************************************)

\* A frame in which every known category value occurs.
FullFrame ==
    FrameOf(EncFrameColumns,
            <<[Id |-> 1, CentralAir |-> "N", MSZoning |-> "FV", LotArea |-> 7, YrSold |-> 2008],
              [Id |-> 2, CentralAir |-> "Y", MSZoning |-> "RL", LotArea |-> 8, YrSold |-> 2010],
              [Id |-> 3, CentralAir |-> "Y", MSZoning |-> "RM", LotArea |-> 9, YrSold |-> 2010]>>)

\* The columns the encoder keeps: the categorical and binary ones, encoded,
\* and the pass-through ones.
EncCategorical == Range(get_binary_column_names) \cup Range(get_categorical_column_names)

EncPassThrough == Range(get_numeric_column_names) \cup Range(enc.pass_through_columns)

\* The width the vocabulary fixes: per categorical column one column less
\* than it has category values (one_hot) or one column (ordinal), and one
\* column per pass-through column.
VocabularyWidth ==
    (IF enc.one_hot
     THEN Len(get_categorical_variables_values_mapping["CentralAir"]) - 1
          + Len(get_categorical_variables_values_mapping["MSZoning"]) - 1
     ELSE Cardinality(EncCategorical))
    + Len(get_numeric_column_names) + Len(enc.pass_through_columns)

\* C8: after a fit on a frame whose categorical values all lie in the
\* vocabulary, transforming a frame holding a subset of the known category
\* values does not error and yields the same output columns, in the same
\* order, as transforming a frame holding every known value, for one_hot
\* true and false; the width is the one the vocabulary fixes, and a column
\* that is neither categorical/binary nor pass-through is dropped.
C8_WidthFixedByVocabulary ==
    (/\ encCall.op = "transform"
     /\ encCall.fitInVocabulary
     /\ InVocabulary(encCall.x))
    => LET out == encCall.outcome
           full == CategoricalEncoder_transform(enc, FullFrame)
       IN  /\ out.status = "return"
           /\ full.status = "return"
           /\ out.value.labels = full.value.labels
           /\ Len(out.value.labels) = VocabularyWidth
           /\ Len(out.value.rows) = NumRows(encCall.x)
           /\ \A r \in 1..NumRows(encCall.x) :
                 Len(out.value.rows[r]) = VocabularyWidth
           /\ {out.value.labels[k][1] : k \in 1..Len(out.value.labels)}
                 = EncCategorical \cup EncPassThrough
           /\ \A k \in 1..Len(out.value.labels) :
                 out.value.labels[k][1] \in EncPassThrough
                 => \A r \in 1..NumRows(encCall.x) :
                       out.value.rows[r][k] = encCall.x.cells[out.value.labels[k][1]][r]

\* C8 witness: a one_hot encoder transformed a frame of one row, which holds
\* one value per categorical column, into a row of the full width.
C8_Witness ==
    /\ encCall.op = "transform"
    /\ encCall.fitInVocabulary
    /\ enc.one_hot
    /\ enc.pass_through_given
    /\ NumRows(encCall.x) = 1
    /\ encCall.outcome.status = "return"
    /\ Len(encCall.outcome.value.rows[1]) = 5

\* C8 witness for the ordinal encoder.
C8_WitnessOrdinal ==
    /\ encCall.op = "transform"
    /\ encCall.fitInVocabulary
    /\ ~enc.one_hot
    /\ NumRows(encCall.x) = 1
    /\ encCall.outcome.status = "return"
    /\ Len(encCall.outcome.value.rows[1]) = 3

(***************************************************************************)
(* Specifications.                                                         *)
(***************************************************************************)

Init == InitBuild /\ InitAge /\ InitAvg /\ InitEnc

SpecBuild == Init /\ [][NextBuild]_vars

SpecAge == Init /\ [][NextAge]_vars

SpecAvg == Init /\ [][NextAvg]_vars

SpecEnc == Init /\ [][NextEnc]_vars

Next == NextBuild \/ NextAge \/ NextAvg \/ NextEnc

Spec == Init /\ [][Next]_vars
====
